---------------------------- MODULE Spec2Model ----------------------------
(***************************************************************************)
(* Image analysis / image generation backend of the caption generator:     *)
(* the multi-provider fallback loops of analyzeImageWithAI, the response   *)
(* normalisation, the text post-processing (formatAltText, formatCaption), *)
(* the mock fallback, textToImageWithAI, processUploadedImage and the two  *)
(* HTTP endpoints that call them.                                          *)
(*                                                                         *)
(* A JavaScript string is modelled as a sequence of one-character strings, *)
(* so that trim, slice, charAt, substring, length and concatenation are    *)
(* computed as the code computes them.                                     *)
(***************************************************************************)
EXTENDS Integers, Sequences, FiniteSets, TLC

(***************************************************************************)
(* String literals of the source.                                          *)
(***************************************************************************)
MockAltText ==
  <<"E", "x", "a", "m", "p", "l", "e", " ", "i", "m", "a", "g", "e", " ",
    "s", "h", "o", "w", "i", "n", "g", " ", "c", "o", "n", "t", "e", "n",
    "t", " ", "t", "h", "a", "t", " ", "w", "o", "u", "l", "d", " ", "n",
    "o", "r", "m", "a", "l", "l", "y", " ", "b", "e", " ", "a", "n", "a",
    "l", "y", "z", "e", "d", " ", "b", "y", " ", "A", "I">>

MockCaption ==
  <<"T", "h", "i", "s", " ", "i", "s", " ", "a", " ", "p", "l", "a", "c",
    "e", "h", "o", "l", "d", "e", "r", " ", "c", "a", "p", "t", "i", "o",
    "n", " ", "f", "o", "r", " ", "d", "e", "m", "o", "n", "s", "t", "r",
    "a", "t", "i", "o", "n", " ", "p", "u", "r", "p", "o", "s", "e", "s",
    ".", " ", "I", "n", " ", "p", "r", "o", "d", "u", "c", "t", "i", "o",
    "n", ",", " ", "t", "h", "i", "s", " ", "w", "o", "u", "l", "d", " ",
    "b", "e", " ", "r", "e", "p", "l", "a", "c", "e", "d", " ", "w", "i",
    "t", "h", " ", "A", "I", "-", "g", "e", "n", "e", "r", "a", "t", "e",
    "d", " ", "a", "n", "a", "l", "y", "s", "i", "s", " ", "d", "e", "s",
    "c", "r", "i", "b", "i", "n", "g", " ", "t", "h", "e", " ", "c", "o",
    "n", "t", "e", "n", "t", ",", " ", "c", "o", "n", "t", "e", "x", "t",
    ",", " ", "a", "n", "d", " ", "d", "e", "t", "a", "i", "l", "s", " ",
    "o", "f", " ", "t", "h", "e", " ", "u", "p", "l", "o", "a", "d", "e",
    "d", " ", "i", "m", "a", "g", "e", ".">>

PrefixCaption ==
  <<"C", "a", "p", "t", "i", "o", "n", ":", " ">>

PrefixDescription ==
  <<"D", "e", "s", "c", "r", "i", "p", "t", "i", "o", "n", ":", " ">>

PrefixImageShows ==
  <<"I", "m", "a", "g", "e", " ", "s", "h", "o", "w", "s", ":", " ">>

TheImageContains ==
  <<" ", "T", "h", "e", " ", "i", "m", "a", "g", "e", " ", "c", "o", "n",
    "t", "a", "i", "n", "s", ":", " ">>

ThisImageContains ==
  <<".", " ", "T", "h", "i", "s", " ", "i", "m", "a", "g", "e", " ", "c",
    "o", "n", "t", "a", "i", "n", "s", ":", " ">>

CommaSpace ==
  <<",", " ">>

Ellipsis ==
  <<".", ".", ".">>

(***************************************************************************)
(* Texts that the model lets the providers return.                         *)
(***************************************************************************)
TxtACat ==
  <<"a", " ", "c", "a", "t", ".">>

TxtACatDots ==
  <<"a", " ", "c", "a", "t", ".", ".">>

TxtADog ==
  <<"a", " ", "d", "o", "g">>

TxtCaptionADogRunning ==
  <<"C", "a", "p", "t", "i", "o", "n", ":", " ", "a", " ", "d", "o", "g",
    " ", "r", "u", "n", "n", "i", "n", "g">>

TxtADogRunning ==
  <<"a", " ", "d", "o", "g", " ", "r", "u", "n", "n", "i", "n", "g">>

TxtAnimal ==
  <<"a", "n", "i", "m", "a", "l">>

TxtGrass ==
  <<"g", "r", "a", "s", "s">>

(***************************************************************************)
(* JavaScript string primitives on sequences of characters.                *)
(***************************************************************************)
Min(a, b) ==
  IF a < b THEN a ELSE b

Rep(c, n) ==
  [i \in 1..n |-> c]

LowerLetters ==
  <<"a", "b", "c", "d", "e", "f", "g", "h", "i", "j", "k", "l", "m",
    "n", "o", "p", "q", "r", "s", "t", "u", "v", "w", "x", "y", "z">>

UpperLetters ==
  <<"A", "B", "C", "D", "E", "F", "G", "H", "I", "J", "K", "L", "M",
    "N", "O", "P", "Q", "R", "S", "T", "U", "V", "W", "X", "Y", "Z">>

\* String.prototype.toUpperCase on one character
UpperChar(c) ==
  IF \E i \in DOMAIN LowerLetters : LowerLetters[i] = c
  THEN UpperLetters[CHOOSE i \in DOMAIN LowerLetters : LowerLetters[i] = c]
  ELSE c

toUpperCase(s) ==
  [i \in DOMAIN s |-> UpperChar(s[i])]

IsWhitespace(c) ==
  c \in {" ", "\t", "\n"}

RECURSIVE trimStart(_)
trimStart(s) ==
  IF s # <<>> /\ IsWhitespace(Head(s)) THEN trimStart(Tail(s)) ELSE s

RECURSIVE trimEnd(_)
trimEnd(s) ==
  IF s # <<>> /\ IsWhitespace(s[Len(s)])
  THEN trimEnd(SubSeq(s, 1, Len(s) - 1))
  ELSE s

\* String.prototype.trim
trim(s) ==
  trimEnd(trimStart(s))

\* String.prototype.endsWith
endsWith(s, suffix) ==
  /\ Len(s) >= Len(suffix)
  /\ SubSeq(s, Len(s) - Len(suffix) + 1, Len(s)) = suffix

\* String.prototype.startsWith
startsWith(s, prefix) ==
  /\ Len(s) >= Len(prefix)
  /\ SubSeq(s, 1, Len(prefix)) = prefix

\* s.charAt(0): the empty string when s is empty
charAt0(s) ==
  IF s = <<>> THEN <<>> ELSE <<s[1]>>

\* s.slice(1)
sliceFrom1(s) ==
  SubSeq(s, 2, Len(s))

\* s.slice(0, -1)
sliceDropLast(s) ==
  SubSeq(s, 1, Len(s) - 1)

\* s.substring(0, n)
substring0(s, n) ==
  SubSeq(s, 1, Min(n, Len(s)))

\* Array.prototype.join(', ') on an array of strings
RECURSIVE join(_)
join(labels) ==
  IF labels = <<>> THEN <<>>
  ELSE IF Len(labels) = 1 THEN labels[1]
  ELSE labels[1] \o CommaSpace \o join(Tail(labels))

(***************************************************************************)
(* JSON values of provider responses, tagged with their JavaScript type.   *)
(***************************************************************************)
Undefined ==
  [type |-> "undefined"]

Null ==
  [type |-> "null"]

JStr(s) ==
  [type |-> "string", val |-> s]

JNum(n) ==
  [type |-> "number", val |-> n]

\* an object literal with (possibly undefined) label and generated_text
JObj(l, g) ==
  [type |-> "object", label |-> l, generated_text |-> g]

JArr(items) ==
  [type |-> "array", items |-> items]

\* JavaScript truthiness
Truthy(v) ==
  CASE v.type = "undefined" -> FALSE
    [] v.type = "null" -> FALSE
    [] v.type = "string" -> v.val # <<>>
    [] v.type = "number" -> v.val # 0
    [] OTHER -> TRUE

\* typeof v === 'object' (true of arrays and null as well)
TypeofObject(v) ==
  v.type \in {"object", "array", "null"}

\* v.generated_text; undefined on values that carry no such property
GeneratedTextOf(v) ==
  IF v.type = "object" THEN v.generated_text ELSE Undefined

\* v.label
LabelOf(v) ==
  IF v.type = "object" THEN v.label ELSE Undefined

\* data[0]?.generated_text
FirstGeneratedText(data) ==
  IF data.items = <<>> THEN Undefined
  ELSE GeneratedTextOf(data.items[1])

\* a || b
Or(a, b) ==
  IF Truthy(a) THEN a ELSE b
(***************************************************************************)
(* Text Post-Processor and Mock Fallback Source.                           *)
(***************************************************************************)
\* the alt text length budget of formatAltText
AltTextLimit ==
  125

\* the number of characters formatAltText keeps in front of the ellipsis
AltTextKeep ==
  122

\* formatAltText cutting at the budget instead of three characters before it
formatAltTextCutAtLimit(text) ==
  LET trimmed == trim(text)
      stripped == IF endsWith(trimmed, <<".">>)
                  THEN sliceDropLast(trimmed)
                  ELSE trimmed
      capitalized == toUpperCase(charAt0(stripped)) \o <<" ">>
                       \o sliceFrom1(stripped)
  IN  IF Len(capitalized) > AltTextLimit
      THEN substring0(capitalized, AltTextLimit) \o Ellipsis
      ELSE capitalized

formatAltText(text) ==
  LET trimmed == trim(text)
      stripped == IF endsWith(trimmed, <<".">>)
                  THEN sliceDropLast(trimmed)
                  ELSE trimmed
      \* the template literal puts a space between the two parts
      capitalized == toUpperCase(charAt0(stripped)) \o <<" ">>
                       \o sliceFrom1(stripped)
  IN  IF Len(capitalized) > AltTextLimit
      THEN substring0(capitalized, AltTextKeep) \o Ellipsis
      ELSE capitalized

\* detailedText.replace(/^(Caption: |Description: |Image shows: )/, '')
StripBoilerplatePrefix(s) ==
  IF startsWith(s, PrefixCaption)
  THEN SubSeq(s, Len(PrefixCaption) + 1, Len(s))
  ELSE IF startsWith(s, PrefixDescription)
  THEN SubSeq(s, Len(PrefixDescription) + 1, Len(s))
  ELSE IF startsWith(s, PrefixImageShows)
  THEN SubSeq(s, Len(PrefixImageShows) + 1, Len(s))
  ELSE s

\* formatCaption returning the detailed text with its prefix left in place
formatCaptionKeepsPrefix(detailedText, basicCaption, classifications) ==
  IF /\ Truthy(detailedText)
     /\ detailedText.type = "string"
     /\ Len(detailedText.val) > Len(basicCaption)
  THEN detailedText.val
  ELSE IF classifications # <<>> /\ Len(classifications) > 0
       THEN basicCaption \o TheImageContains \o classifications \o <<".">>
       ELSE basicCaption

\* detailedText is a JSON value (the analysis text may be a non-string
\* truthy value, whose .length is undefined and compares false);
\* basicCaption and classifications are strings
formatCaption(detailedText, basicCaption, classifications) ==
  IF /\ Truthy(detailedText)
     /\ detailedText.type = "string"
     /\ Len(detailedText.val) > Len(basicCaption)
  THEN StripBoilerplatePrefix(detailedText.val)
  ELSE IF classifications # <<>> /\ Len(classifications) > 0
       THEN basicCaption \o TheImageContains \o classifications \o <<".">>
       ELSE basicCaption

getMockAnalysisResults ==
  [altText |-> MockAltText, caption |-> MockCaption]

(***************************************************************************)
(* Provider lists and the per-request results object.                      *)
(***************************************************************************)
models ==
  [caption |-> <<"Salesforce/blip-image-captioning-large",
                 "microsoft/git-base-coco",
                 "nlpconnect/vit-gpt2-image-captioning",
                 "Salesforce/blip-image-captioning-base">>,
   analysis |-> <<"Salesforce/blip-image-captioning-large",
                  "Salesforce/blip-image-captioning-base",
                  "microsoft/git-base-coco",
                  "nlpconnect/vit-gpt2-image-captioning">>,
   classification |-> <<"microsoft/resnet-50",
                        "facebook/deit-base-distilled-patch16-224",
                        "google/vit-base-patch16-224">>]

InitialResults ==
  [captionSuccess |-> FALSE,
   analysisSuccess |-> FALSE,
   classificationSuccess |-> FALSE,
   captionText |-> JStr(<<>>),
   analysisText |-> JStr(<<>>),
   classifications |-> <<>>]

(***************************************************************************)
(* Response normalisation.  An outcome of axios.post is either a thrown    *)
(* error (network failure, timeout, non-2xx status) or the parsed body.    *)
(***************************************************************************)
Thrown(kind) ==
  [threw |-> TRUE, kind |-> kind]

Responded(data) ==
  [threw |-> FALSE, data |-> data]

\* the chain with a last branch that forgets the typeof test
ExtractCaptionTextAnyTruthy(data) ==
  IF Truthy(data) /\ data.type = "array" /\ Truthy(FirstGeneratedText(data))
  THEN [usable |-> TRUE, text |-> FirstGeneratedText(data)]
  ELSE IF Truthy(data) /\ TypeofObject(data)
          /\ Truthy(GeneratedTextOf(data))
  THEN [usable |-> TRUE, text |-> GeneratedTextOf(data)]
  ELSE IF Truthy(data)
  THEN [usable |-> TRUE, text |-> data]
  ELSE [usable |-> FALSE, text |-> Undefined]

\* the chain without its branch for a bare string
ExtractCaptionTextNoString(data) ==
  IF Truthy(data) /\ data.type = "array" /\ Truthy(FirstGeneratedText(data))
  THEN [usable |-> TRUE, text |-> FirstGeneratedText(data)]
  ELSE IF Truthy(data) /\ TypeofObject(data)
          /\ Truthy(GeneratedTextOf(data))
  THEN [usable |-> TRUE, text |-> GeneratedTextOf(data)]
  ELSE [usable |-> FALSE, text |-> Undefined]

\* the if / else-if chain on the response shape of the caption loop
ExtractCaptionText(data) ==
  IF Truthy(data) /\ data.type = "array" /\ Truthy(FirstGeneratedText(data))
  THEN [usable |-> TRUE, text |-> FirstGeneratedText(data)]
  ELSE IF Truthy(data) /\ TypeofObject(data)
          /\ Truthy(GeneratedTextOf(data))
  THEN [usable |-> TRUE, text |-> GeneratedTextOf(data)]
  ELSE IF Truthy(data) /\ data.type = "string"
  THEN [usable |-> TRUE, text |-> data]
  ELSE [usable |-> FALSE, text |-> Undefined]

\* the same chain, as written again in the analysis loop
ExtractAnalysisText(data) ==
  IF Truthy(data) /\ data.type = "array" /\ Truthy(FirstGeneratedText(data))
  THEN [usable |-> TRUE, text |-> FirstGeneratedText(data)]
  ELSE IF Truthy(data) /\ TypeofObject(data)
          /\ Truthy(GeneratedTextOf(data))
  THEN [usable |-> TRUE, text |-> GeneratedTextOf(data)]
  ELSE IF Truthy(data) /\ data.type = "string"
  THEN [usable |-> TRUE, text |-> data]
  ELSE [usable |-> FALSE, text |-> Undefined]

\* body of one iteration of the caption loop: try { ... } catch { log }
CaptionAttempt(res, outcome) ==
  IF outcome.threw THEN res
  ELSE LET n == ExtractCaptionText(outcome.data)
       IN  IF n.usable
           THEN [res EXCEPT !.captionText = n.text, !.captionSuccess = TRUE]
           ELSE res

AnalysisAttempt(res, outcome) ==
  IF outcome.threw THEN res
  ELSE LET n == ExtractAnalysisText(outcome.data)
       IN  IF n.usable
           THEN [res EXCEPT !.analysisText = n.text,
                            !.analysisSuccess = TRUE]
           ELSE res

\* item => item.label || item.generated_text || item
LabelOfItem(item) ==
  Or(Or(LabelOf(item), GeneratedTextOf(item)), item)

IsStringValue(v) ==
  v.type = "string"

\* body of one iteration of the classification loop; reading .label of a
\* null entry throws a TypeError inside the try, before the assignment
ClassificationAttempt(res, outcome) ==
  IF outcome.threw THEN res
  ELSE IF Truthy(outcome.data) /\ outcome.data.type = "array"
  THEN LET items == outcome.data.items
           first3 == SubSeq(items, 1, Min(3, Len(items)))
       IN  IF \E i \in DOMAIN first3 : first3[i].type = "null"
           THEN res
           ELSE LET mapped == [i \in DOMAIN first3 |-> LabelOfItem(first3[i])]
                    labels == SelectSeq(mapped, IsStringValue)
                IN  [res EXCEPT
                       !.classifications = labels,
                       !.classificationSuccess =
                          IF Len(labels) > 0 THEN TRUE ELSE @]
  ELSE res
(***************************************************************************)
(* Control flow of analyzeImageWithAI between two provider calls.          *)
(***************************************************************************)
\* the caption loop without its break
ContinueCaptionLoopNoBreak(res, k) ==
  k < Len(models.caption)

\* for (const model of models.caption) { if (results.captionSuccess) break;
ContinueCaptionLoop(res, k) ==
  ~res.captionSuccess /\ k < Len(models.caption)

ContinueAnalysisLoop(res, k) ==
  ~res.analysisSuccess /\ k < Len(models.analysis)

\* a classification loop that gives up after its first provider
ContinueClassificationLoopOnce(res, k) ==
  FALSE

ContinueClassificationLoop(res, k) ==
  ~res.classificationSuccess /\ k < Len(models.classification)

\* the analysis loop entered unconditionally
AnalysisGuardAlways(res) ==
  TRUE

\* if (results.captionSuccess) in front of the analysis loop
AnalysisGuard(res) ==
  res.captionSuccess

\* if (results.captionSuccess) in front of the classification loop
ClassificationGuard(res) ==
  res.captionSuccess

\* the mock fallback after the loops left out
CaptionFailedNever(res) ==
  FALSE

\* if (!results.captionSuccess) after the loops
CaptionFailed(res) ==
  ~res.captionSuccess

LabelStrings(res) ==
  [i \in DOMAIN res.classifications |-> res.classifications[i].val]

\* the statements after the loops; formatAltText calls text.trim(), a
\* TypeError when the caption text is not a string
FormatResults(res) ==
  IF CaptionFailed(res)
  THEN [threw |-> FALSE, value |-> getMockAnalysisResults]
  ELSE IF res.captionText.type # "string"
  THEN [threw |-> TRUE, value |-> getMockAnalysisResults]
  ELSE LET captionText == res.captionText.val
           labels == join(LabelStrings(res))
           altText == formatAltText(captionText)
           caption ==
             IF res.analysisSuccess /\ Truthy(res.analysisText)
             THEN formatCaption(res.analysisText, captionText, labels)
             ELSE IF res.classificationSuccess
             THEN captionText \o ThisImageContains \o labels \o <<".">>
             ELSE captionText
       IN  [threw |-> FALSE,
            value |-> [altText |-> altText, caption |-> caption]]

\* an outer catch that rethrows instead of falling back to the mock
OuterCatchRethrow(attempt) ==
  attempt

\* the outer try / catch of analyzeImageWithAI
OuterCatch(attempt) ==
  IF attempt.threw
  THEN [threw |-> FALSE, value |-> getMockAnalysisResults]
  ELSE attempt

(***************************************************************************)
(* HTTP responses.                                                         *)
(***************************************************************************)
NoResponse ==
  [status |-> 0, contentType |-> "none", body |-> [kind |-> "none"]]

\* res.json(results)
JsonResponse(value) ==
  [status |-> 200, contentType |-> "application/json",
   body |-> [kind |-> "analysis", altText |-> value.altText,
             caption |-> value.caption]]

\* res.status(code).json({ error: message })
ErrorResponse(code, message) ==
  [status |-> code, contentType |-> "application/json",
   body |-> [kind |-> "error", error |-> message]]

\* res.set('Content-Type', 'image/png'); res.send(imageBuffer)
ImageResponse(payload) ==
  [status |-> 200, contentType |-> "image/png", body |-> payload]

ImageBytes ==
  [kind |-> "image"]

MockPayload ==
  [kind |-> "analysis", altText |-> getMockAnalysisResults.altText,
   caption |-> getMockAnalysisResults.caption]
(***************************************************************************)
(* textToImageWithAI.                                                      *)
(***************************************************************************)
\* the inner try / catch around axios.post: log and rethrow
GenerateInner(outcome) ==
  IF outcome.threw
  THEN [threw |-> TRUE, value |-> [kind |-> "none"]]
  ELSE [threw |-> FALSE, value |-> outcome.data]

\* the outer try / catch of textToImageWithAI
GenerateOuterCatch(attempt) ==
  IF attempt.threw
  THEN [threw |-> FALSE, value |-> MockPayload]
  ELSE attempt

\* the route handler of POST /api/generate-image after the await
GenerateEndpointResponse(attempt) ==
  IF attempt.threw
  THEN ErrorResponse(500, "Failed to generate image")
  ELSE ImageResponse(attempt.value)

(***************************************************************************)
(* Inputs of the model.                                                    *)
(***************************************************************************)
\* how far past the alt text budget the longest caption text reaches
MaxOver ==
  2

Reqs ==
  {1, 2}

\* file names multer derives from Date.now() and the extension
Paths ==
  {"1718000000000.png", "1718000000001.png"}

LongTexts ==
  {Rep("x", n) : n \in (AltTextLimit - 2)..(AltTextLimit + MaxOver)}

CaptionTexts ==
  {TxtACat, TxtACatDots, TxtADog, <<" ">>, <<".">>} \cup LongTexts

AnalysisTexts ==
  {PrefixCaption, TxtCaptionADogRunning, TxtADogRunning, <<"a">>}

\* values a provider may put in a generated_text field
CaptionGenerated ==
  {JStr(t) : t \in CaptionTexts} \cup {JNum(42), JStr(<<>>), Undefined}

AnalysisGenerated ==
  {JStr(t) : t \in AnalysisTexts} \cup {JNum(7), JStr(<<>>), Undefined}

GatewayErrors ==
  {Thrown("network"), Thrown("timeout"), Thrown("http")}

\* the three recognised shapes around every value, and shapes that carry
\* no text at all
ShapesOf(generated) ==
  {JArr(<<JObj(Undefined, g)>>) : g \in generated}
    \cup {JObj(Undefined, g) : g \in generated}
    \cup (generated \ {Undefined})
    \cup {Null, JArr(<<>>), JArr(<<Null>>), JNum(0),
          JArr(<<JStr(TxtADog)>>), JObj(JStr(TxtADog), Undefined)}

CaptionOutcomes ==
  GatewayErrors \cup {Responded(d) : d \in ShapesOf(CaptionGenerated)}

AnalysisOutcomes ==
  GatewayErrors \cup {Responded(d) : d \in ShapesOf(AnalysisGenerated)}

ClassificationBodies ==
  {JArr(<<JObj(JStr(TxtAnimal), Undefined), JObj(JStr(TxtGrass), Undefined)>>),
   JArr(<<JObj(Undefined, JStr(TxtGrass))>>),
   JArr(<<JStr(TxtAnimal)>>),
   JArr(<<JObj(JNum(1), Undefined)>>),
   JArr(<<JObj(Undefined, Undefined), JObj(JStr(TxtAnimal), Undefined),
          JObj(JStr(TxtGrass), Undefined), JObj(JStr(TxtACat), Undefined)>>),
   JArr(<<Null, JObj(JStr(TxtAnimal), Undefined)>>),
   JArr(<<>>),
   JArr(<<Null>>),
   JObj(JStr(TxtAnimal), Undefined),
   Null}

ClassificationOutcomes ==
  GatewayErrors \cup {Responded(d) : d \in ClassificationBodies}

GenerateOutcomes ==
  GatewayErrors \cup {Responded(ImageBytes)}

\* the prompt property of the request body (undefined when it is missing)
Prompts ==
  {Undefined, JStr(<<"t", "i", "g", "e", "r">>)}

NoRequest ==
  [endpoint |-> "none", hasFile |-> FALSE, path |-> "none",
   prompt |-> Undefined]

(***************************************************************************)
(* State.                                                                  *)
(***************************************************************************)
VARIABLES
  token,     \* whether process.env.HUGGINGFACE_API_TOKEN is set
  files,     \* the paths that exist in the uploads directory
  req,       \* per request: endpoint, req.file, req.body.prompt
  pc,        \* per request: where its handler is suspended
  idx,       \* per request: position in the provider list being tried
  results,   \* per request: the results object of analyzeImageWithAI
  calls,     \* per request: the provider calls issued so far
  response,  \* per request: what the endpoint answered
  lastOutcome, \* per request: the outcome of the provider call settled last
  fmtIn,     \* input of the text post-processor under test
  fmtOut,    \* its output
  app,       \* App and ViewToggler: appView, isToggled, lastAnalysis,
             \* selectedId
  analyzer,  \* ImageAnalyzer: its useState values and what it awaits
  generator, \* ImageGenerator: its useState values and what it awaits
  orphans,   \* requests of components that were unmounted meanwhile
  sockets    \* per status socket: interval, checks in flight, emissions

vars ==
  <<token, files, req, pc, idx, results, calls, response, lastOutcome,
    fmtIn, fmtOut, app, analyzer, generator, orphans, sockets>>

reqVars ==
  <<token, files, req, pc, idx, results, calls, response, lastOutcome>>

fmtVars ==
  <<fmtIn, fmtOut>>

uiVars ==
  <<app, analyzer, generator, orphans>>

NoFmt ==
  [fn |-> "none"]

\* no provider call of the request has settled yet
NoOutcome ==
  [threw |-> FALSE, data |-> [type |-> "none"]]

(***************************************************************************)
(* The front end: App, ImageAnalyzer, ImageGenerator and utils.            *)
(***************************************************************************)
DataUrlPrefix ==
  <<"d", "a", "t", "a", ":", "i", "m", "a", "g", "e", "/", "p", "n", "g",
    ";", "b", "a", "s", "e", "6", "4", ",">>

DefaultPrompt ==
  <<"a", " ", "t", "i", "g", "e", "r", " ", "d", "o", "i", "n", "g", " ",
    "a", " ", "h", "a", "n", "d", "s", "t", "a", "n", "d">>

\* generateHtmlCode: the figure template around the name, the alt text and
\* the caption
generateHtmlCode(imageName, altText, caption) ==
  <<"<", "f", "i", "g", "u", "r", "e", ">", "\n", " ", " ", " ", " ", " ",
    " ", " ", " ", "<", "i", "m", "g", " ", "s", "r", "c", "=", "\"">>
    \o imageName
    \o <<"\"", " ", "a", "l", "t", "=", "\"">>
    \o altText
    \o <<"\"", ">", "\n", " ", " ", " ", " ", " ", " ", " ", " ", "<", "f",
         "i", "g", "c", "a", "p", "t", "i", "o", "n", ">">>
    \o caption
    \o <<"<", "/", "f", "i", "g", "c", "a", "p", "t", "i", "o", "n", ">",
         "\n", " ", " ", " ", " ", "<", "/", "f", "i", "g", "u", "r", "e",
         ">">>

\* maxFileSize={15 * 1024 * 1024} passed by App, in MB
maxFileSize ==
  15

\* MAX_SIZE of uploadImageForAnalysis, in MB
MAX_SIZE ==
  10

\* no file: e.target.files[0] of a cancelled picker, the initial file state
NoFile ==
  [name |-> <<>>, size |-> 0, image |-> FALSE]

\* files the picker offers with accept="image/*" (size in MB; image: the
\* type matches 'image.*')
UserFiles ==
  {[name |-> <<"a", ".", "p", "n", "g">>, size |-> 1, image |-> TRUE],
   [name |-> <<"b", ".", "p", "n", "g">>, size |-> 12, image |-> TRUE],
   [name |-> <<"c", ".", "p", "n", "g">>, size |-> 20, image |-> TRUE]}

\* e.target.result of the FileReader
DataUrl(f) ==
  DataUrlPrefix \o f.name

\* an awaited promise settles
Resolved(value) ==
  [rejected |-> FALSE, value |-> value]

Rejected(message) ==
  [rejected |-> TRUE, message |-> message]

\* bodies the analysis endpoint answers with status 200
AnalysisResults ==
  {getMockAnalysisResults,
   [altText |-> <<>>, caption |-> <<".">>]}

\* uploadImageForAnalysis(file): the two guards, then the fetch, which
\* fails, is answered with an error status, or is answered with a result
UploadOutcomes(f) ==
  IF ~f.image
  THEN {Rejected("Please select a valid image file")}
  ELSE IF f.size > MAX_SIZE
  THEN {Rejected("Image is too large. Please select an image under 10MB.")}
  ELSE {Rejected("Failed to fetch"), Rejected("Failed to analyze image")}
         \cup {Resolved(result) : result \in AnalysisResults}

\* generateImageFromText(prompt): the fetch fails, is answered with an
\* error status, or its body (possibly empty) becomes a data URL
GenerationOutcomes ==
  {Rejected("Failed to fetch"), Rejected("Failed to generate image"),
   Resolved(DataUrlPrefix), Resolved(DataUrlPrefix \o <<"i", "V", "B">>)}

\* values of the prompt input
UserPrompts ==
  {<<>>, DefaultPrompt, <<"a", " ", "c", "a", "t">>}

\* most awaited clipboard writes, and most timers, of one component
MaxPending ==
  1

\* most requests left behind by unmounted components
MaxOrphans ==
  1

InitialApp ==
  [appView |-> "Accesibility", isToggled |-> FALSE, lastAnalysis |-> Null,
   selectedId |-> ""]

\* the useState initial values of ImageAnalyzer; nothing is awaited
InitialAnalyzer ==
  [file |-> NoFile, previewUrl |-> <<>>, analysis |-> Null,
   isLoading |-> FALSE, error |-> "", htmlCode |-> <<>>, copied |-> FALSE,
   upload |-> NoFile, readers |-> {}, copying |-> 0, timers |-> 0]

\* the useState initial values of ImageGenerator; nothing is awaited
InitialGenerator ==
  [prompt |-> DefaultPrompt, imgUrl |-> <<>>, isGenerating |-> FALSE,
   error |-> "", requests |-> 0]

NoOrphans ==
  [uploads |-> <<>>, generations |-> 0]

\* the sockets of the clients that connect to the status channel
Clients ==
  {1, 2}

\* most status checks of one socket whose fetch is in flight together
MaxChecks ==
  2

\* the interval is let fire while fewer updates than this were emitted
MaxEmits ==
  2

\* no client has connected
NoSockets ==
  [c \in Clients |->
     [state |-> "none", interval |-> FALSE, fetching |-> 0,
      emitted |-> 0, status |-> "none"]]

Init ==
  /\ token \in BOOLEAN
  /\ files = {}
  /\ req = [r \in Reqs |-> NoRequest]
  /\ pc = [r \in Reqs |-> "idle"]
  /\ idx = [r \in Reqs |-> 0]
  /\ results = [r \in Reqs |-> InitialResults]
  /\ calls = [r \in Reqs |-> <<>>]
  /\ response = [r \in Reqs |-> NoResponse]
  /\ lastOutcome = [r \in Reqs |-> NoOutcome]
  /\ fmtIn = NoFmt
  /\ fmtOut = NoFmt
  /\ app = InitialApp
  /\ analyzer = InitialAnalyzer
  /\ generator = InitialGenerator
  /\ orphans = NoOrphans
  /\ sockets = NoSockets
(***************************************************************************)
(* Steps of a request.  A handler runs without interruption from one       *)
(* await of a provider call to the next, so each action is the code        *)
(* between two such awaits.                                                *)
(***************************************************************************)
\* a loop that tries the same provider again
NextProviderRetry(k) ==
  k

\* for (const model of ...): the iteration moves to the next list element
NextProvider(k) ==
  k + 1

CallRecord(cap, k) ==
  [cap |-> cap, k |-> k, model |-> models[cap][k], usable |-> "pending"]

\* the log with the outcome of the call in flight filled in
Settled(log, usable) ==
  [log EXCEPT ![Len(log)].usable = IF usable THEN "yes" ELSE "no"]

\* await axios.post(... models[cap][k] ...): the request suspends
IssueCall(r, cap, k, res, log) ==
  /\ pc' = [pc EXCEPT ![r] = cap]
  /\ idx' = [idx EXCEPT ![r] = k]
  /\ results' = [results EXCEPT ![r] = res]
  /\ calls' = [calls EXCEPT ![r] = Append(log, CallRecord(cap, k))]
  /\ UNCHANGED <<files, response>>

\* processUploadedImage returning the results without deleting the upload
ProcessUploadedImageTailKeepsFile(r, analysed) ==
  /\ files' = files
  /\ response' = [response EXCEPT ![r] = JsonResponse(analysed.value)]

\* processUploadedImage after analyzeImageWithAI settled, and the route
\* handler of POST /api/analyze-image after processUploadedImage settled
ProcessUploadedImageTail(r, analysed) ==
  LET imagePath == req[r].path
  IN  IF analysed.threw
      THEN \* catch: clean up the file, rethrow; the handler answers 500
           /\ files' = files \ {imagePath}
           /\ response' = [response EXCEPT
                 ![r] = ErrorResponse(500, "Failed to analyze image")]
      ELSE IF imagePath \in files
      THEN \* fs.unlinkSync(imagePath); return results; res.json(results)
           /\ files' = files \ {imagePath}
           /\ response' = [response EXCEPT
                 ![r] = JsonResponse(analysed.value)]
      ELSE \* fs.unlinkSync throws ENOENT; catch: nothing to clean, rethrow
           /\ files' = files
           /\ response' = [response EXCEPT
                 ![r] = ErrorResponse(500, "ENOENT")]

\* analyzeImageWithAI never settling after its last statement
FinishNever(r, attempt, res, log) ==
  /\ results' = [results EXCEPT ![r] = res]
  /\ calls' = [calls EXCEPT ![r] = log]
  /\ UNCHANGED <<pc, idx, files, response>>

\* analyzeImageWithAI returns (or throws) and the request is answered
Finish(r, attempt, res, log) ==
  /\ pc' = [pc EXCEPT ![r] = "done"]
  /\ idx' = [idx EXCEPT ![r] = 0]
  /\ results' = [results EXCEPT ![r] = res]
  /\ calls' = [calls EXCEPT ![r] = log]
  /\ \E analysed \in {OuterCatch(attempt)} :
       ProcessUploadedImageTail(r, analysed)

\* the code after the caption loop
AfterCaptionLoop(r, res, log) ==
  IF AnalysisGuard(res)
  THEN IssueCall(r, "analysis", 1, res, log)
  ELSE IF ClassificationGuard(res)
  THEN IssueCall(r, "classification", 1, res, log)
  ELSE Finish(r, FormatResults(res), res, log)

\* the caption loop entered again after the analysis loop
AfterAnalysisLoopCaptionAgain(r, res, log) ==
  IssueCall(r, "caption", 1, res, log)

\* the code after the analysis loop
AfterAnalysisLoop(r, res, log) ==
  IF ClassificationGuard(res)
  THEN IssueCall(r, "classification", 1, res, log)
  ELSE Finish(r, FormatResults(res), res, log)

\* the credential check skipped
AnalyzeTokenMissingNever(huggingfaceToken) ==
  FALSE

\* if (!huggingfaceToken) at the head of analyzeImageWithAI
AnalyzeTokenMissing(huggingfaceToken) ==
  ~huggingfaceToken

\* if (!huggingfaceToken) at the head of textToImageWithAI
GenerateTokenMissing(huggingfaceToken) ==
  ~huggingfaceToken

\* multer stores the uploaded file (if any) and hands over to the handler
ReceiveAnalyze(r) ==
  /\ pc[r] = "idle"
  /\ \E hasFile \in BOOLEAN, path \in Paths :
       /\ req' = [req EXCEPT ![r] =
                    [endpoint |-> "analyze", hasFile |-> hasFile,
                     path |-> IF hasFile THEN path ELSE "none",
                     prompt |-> Undefined]]
       /\ files' = IF hasFile THEN files \cup {path} ELSE files
  /\ pc' = [pc EXCEPT ![r] = "analyzeHandler"]
  /\ UNCHANGED <<token, idx, results, calls, response, lastOutcome, fmtVars,
               uiVars, sockets>>

\* the route handler of POST /api/analyze-image up to its first await:
\* processUploadedImage(req) and the head of analyzeImageWithAI
AnalyzeHandler(r) ==
  /\ pc[r] = "analyzeHandler"
  /\ IF ~req[r].hasFile
     THEN /\ response' = [response EXCEPT
                ![r] = ErrorResponse(400, "No image file provided")]
          /\ pc' = [pc EXCEPT ![r] = "done"]
          /\ UNCHANGED <<files, idx, results, calls>>
     ELSE IF AnalyzeTokenMissing(token)
     THEN Finish(r, [threw |-> FALSE, value |-> getMockAnalysisResults],
                 InitialResults, <<>>)
     ELSE IF req[r].path \notin files
     THEN \* fs.readFileSync throws inside the outer try
          Finish(r, [threw |-> TRUE, value |-> getMockAnalysisResults],
                 InitialResults, <<>>)
     ELSE IF ContinueCaptionLoop(InitialResults, 0)
     THEN IssueCall(r, "caption", 1, InitialResults, <<>>)
     ELSE AfterCaptionLoop(r, InitialResults, <<>>)
  /\ UNCHANGED <<token, req, lastOutcome, fmtVars,
               uiVars, sockets>>

\* the caption call in flight settles: rest of the iteration, loop control
CaptionReturn(r) ==
  /\ pc[r] = "caption"
  /\ \E outcome \in CaptionOutcomes :
       \E res \in {CaptionAttempt(results[r], outcome)} :
         \E log \in {Settled(calls[r], res.captionSuccess)} :
           /\ IF ContinueCaptionLoop(res, idx[r])
              THEN IssueCall(r, "caption", NextProvider(idx[r]), res, log)
              ELSE AfterCaptionLoop(r, res, log)
           /\ lastOutcome' = [lastOutcome EXCEPT ![r] = outcome]
  /\ UNCHANGED <<token, req, fmtVars,
               uiVars, sockets>>

AnalysisReturn(r) ==
  /\ pc[r] = "analysis"
  /\ \E outcome \in AnalysisOutcomes :
       \E res \in {AnalysisAttempt(results[r], outcome)} :
         \E log \in {Settled(calls[r], res.analysisSuccess)} :
           /\ IF ContinueAnalysisLoop(res, idx[r])
              THEN IssueCall(r, "analysis", NextProvider(idx[r]), res, log)
              ELSE AfterAnalysisLoop(r, res, log)
           /\ lastOutcome' = [lastOutcome EXCEPT ![r] = outcome]
  /\ UNCHANGED <<token, req, fmtVars,
               uiVars, sockets>>

ClassificationReturn(r) ==
  /\ pc[r] = "classification"
  /\ \E outcome \in ClassificationOutcomes :
       \E res \in {ClassificationAttempt(results[r], outcome)} :
         \E log \in {Settled(calls[r], res.classificationSuccess)} :
           /\ IF ContinueClassificationLoop(res, idx[r])
              THEN IssueCall(r, "classification", NextProvider(idx[r]), res, log)
              ELSE Finish(r, FormatResults(res), res, log)
           /\ lastOutcome' = [lastOutcome EXCEPT ![r] = outcome]
  /\ UNCHANGED <<token, req, fmtVars,
               uiVars, sockets>>

\* the route handler of POST /api/generate-image up to its first await
GenerateHandler(r) ==
  /\ pc[r] = "idle"
  /\ \E prompt \in Prompts :
       req' = [req EXCEPT ![r] =
                 [endpoint |-> "generate", hasFile |-> FALSE,
                  path |-> "none", prompt |-> prompt]]
  /\ IF GenerateTokenMissing(token)
     THEN /\ response' = [response EXCEPT ![r] =
                GenerateEndpointResponse(
                  [threw |-> FALSE, value |-> MockPayload])]
          /\ pc' = [pc EXCEPT ![r] = "done"]
          /\ calls' = calls
     ELSE /\ pc' = [pc EXCEPT ![r] = "generate"]
          /\ calls' = [calls EXCEPT ![r] =
                <<[cap |-> "generate", k |-> 1,
                   model |-> "stabilityai/stable-diffusion-xl-base-1.0",
                   usable |-> "pending"]>>]
          /\ response' = response
  /\ UNCHANGED <<token, files, idx, results, lastOutcome, fmtVars,
               uiVars, sockets>>

\* the text-to-image call settles and the endpoint answers
GenerateReturn(r) ==
  /\ pc[r] = "generate"
  /\ \E outcome \in GenerateOutcomes :
       /\ response' = [response EXCEPT ![r] =
            GenerateEndpointResponse(GenerateOuterCatch(GenerateInner(outcome)))]
       /\ calls' = [calls EXCEPT ![r] = Settled(@, ~outcome.threw)]
       /\ lastOutcome' = [lastOutcome EXCEPT ![r] = outcome]
  /\ pc' = [pc EXCEPT ![r] = "done"]
  /\ UNCHANGED <<token, files, req, idx, results, fmtVars,
               uiVars, sockets>>

\* the response is sent; nothing of the request is kept
Complete(r) ==
  /\ pc[r] = "done"
  /\ pc' = [pc EXCEPT ![r] = "idle"]
  /\ req' = [req EXCEPT ![r] = NoRequest]
  /\ idx' = [idx EXCEPT ![r] = 0]
  /\ results' = [results EXCEPT ![r] = InitialResults]
  /\ calls' = [calls EXCEPT ![r] = <<>>]
  /\ response' = [response EXCEPT ![r] = NoResponse]
  /\ lastOutcome' = [lastOutcome EXCEPT ![r] = NoOutcome]
  /\ UNCHANGED <<token, files, fmtVars,
               uiVars, sockets>>

\* the requests that the specification Spec lets run: one at a time
Sequential ==
  {1}

Next ==
  \E r \in Sequential :
    \/ ReceiveAnalyze(r)
    \/ AnalyzeHandler(r)
    \/ CaptionReturn(r)
    \/ AnalysisReturn(r)
    \/ ClassificationReturn(r)
    \/ GenerateHandler(r)
    \/ GenerateReturn(r)
    \/ Complete(r)

Spec ==
  Init /\ [][Next]_vars

(***************************************************************************)
(* Two uploads served concurrently: the handlers of both requests          *)
(* interleave at their awaits.  Each provider either times out or gives    *)
(* one well-formed answer.                                                 *)
(***************************************************************************)
PlainOutcomes ==
  {Thrown("timeout"),
   Responded(JArr(<<JObj(Undefined, JStr(TxtADog))>>)),
   Responded(JArr(<<JObj(JStr(TxtAnimal), Undefined),
                    JObj(JStr(TxtGrass), Undefined)>>))}

CaptionSettles(r) ==
  CaptionReturn(r) /\ lastOutcome'[r] \in PlainOutcomes

AnalysisSettles(r) ==
  AnalysisReturn(r) /\ lastOutcome'[r] \in PlainOutcomes

ClassificationSettles(r) ==
  ClassificationReturn(r) /\ lastOutcome'[r] \in PlainOutcomes

NextConcurrent ==
  \E r \in Reqs :
    \/ ReceiveAnalyze(r)
    \/ AnalyzeHandler(r)
    \/ CaptionSettles(r)
    \/ AnalysisSettles(r)
    \/ ClassificationSettles(r)
    \/ Complete(r)

SpecConcurrent ==
  Init /\ [][NextConcurrent]_vars

(***************************************************************************)
(* Uploads served one at a time where an accepted request is handled and   *)
(* every provider call settles: the timeout option of each axios.post      *)
(* turns a provider that does not answer into a rejected promise.          *)
(***************************************************************************)
NextFair ==
  \E r \in Sequential :
    \/ ReceiveAnalyze(r)
    \/ AnalyzeHandler(r)
    \/ CaptionSettles(r)
    \/ AnalysisSettles(r)
    \/ ClassificationSettles(r)
    \/ Complete(r)

Fairness ==
  \A r \in Sequential :
    /\ WF_vars(AnalyzeHandler(r))
    /\ WF_vars(CaptionSettles(r))
    /\ WF_vars(AnalysisSettles(r))
    /\ WF_vars(ClassificationSettles(r))

SpecFair ==
  Init /\ [][NextFair]_vars /\ Fairness

(***************************************************************************)
(* The text post-processor on its own: Init draws an input, one action     *)
(* per function applies it.                                                *)
(***************************************************************************)
\* most whitespace characters put around an input text
MaxPad ==
  1

\* most periods put at the end of an input text
MaxDots ==
  2

FmtBodies ==
  {<<>>, TxtADog, <<"a", " ", "c", "a", "t">>} \cup LongTexts

FmtTexts ==
  {Rep(" ", i) \o body \o Rep(".", p) \o Rep(" ", j) :
     i \in 0..MaxPad, j \in 0..MaxPad, p \in 0..MaxDots, body \in FmtBodies}

FmtDetailed ==
  {<<>>, <<"a">>, PrefixCaption, TxtCaptionADogRunning, TxtADogRunning,
   PrefixDescription \o TxtADogRunning, PrefixImageShows \o TxtADogRunning}

FmtBasic ==
  {<<>>, TxtADog, TxtADogRunning}

FmtLabels ==
  {<<>>, <<TxtAnimal>>, <<TxtAnimal, TxtGrass>>}

\* a 200-character text that capitalisation leaves as it is
FmtText200 ==
  Rep("X", 200)

\* texts carried to the normaliser in each of the three response shapes
NormTexts ==
  CaptionTexts \cup AnalysisTexts \cup {<<>>}

FmtInputs ==
  {[fn |-> "formatAltText", text |-> t] : t \in FmtTexts \cup {FmtText200}}
    \cup {[fn |-> "formatCaption", detailedText |-> d, basicCaption |-> b,
           labels |-> l] : d \in FmtDetailed, b \in FmtBasic, l \in FmtLabels}
    \cup {[fn |-> "normalize", cap |-> c, text |-> t] :
            c \in {"caption", "analysis"}, t \in NormTexts}
    \cup {[fn |-> "classify", data |-> d] : d \in ClassificationBodies}

InitFmt ==
  /\ token = FALSE
  /\ files = {}
  /\ req = [r \in Reqs |-> NoRequest]
  /\ pc = [r \in Reqs |-> "idle"]
  /\ idx = [r \in Reqs |-> 0]
  /\ results = [r \in Reqs |-> InitialResults]
  /\ calls = [r \in Reqs |-> <<>>]
  /\ response = [r \in Reqs |-> NoResponse]
  /\ lastOutcome = [r \in Reqs |-> NoOutcome]
  /\ fmtIn \in FmtInputs
  /\ fmtOut = NoFmt
  /\ app = InitialApp
  /\ analyzer = InitialAnalyzer
  /\ generator = InitialGenerator
  /\ orphans = NoOrphans
  /\ sockets = NoSockets

ApplyFormatAltText ==
  /\ fmtIn.fn = "formatAltText"
  /\ fmtOut = NoFmt
  /\ fmtOut' = [fn |-> "formatAltText", val |-> formatAltText(fmtIn.text)]
  /\ UNCHANGED <<reqVars, fmtIn, uiVars, sockets>>

\* called as analyzeImageWithAI calls it, with the labels joined
ApplyFormatCaption ==
  /\ fmtIn.fn = "formatCaption"
  /\ fmtOut = NoFmt
  /\ fmtOut' = [fn |-> "formatCaption",
                val |-> formatCaption(JStr(fmtIn.detailedText),
                                      fmtIn.basicCaption,
                                      join(fmtIn.labels))]
  /\ UNCHANGED <<reqVars, fmtIn, uiVars, sockets>>

\* the shape chain of the caption or analysis loop on one response body
ExtractText(cap, data) ==
  IF cap = "caption" THEN ExtractCaptionText(data)
  ELSE ExtractAnalysisText(data)

\* the same text in the three shapes the loops recognise
ApplyNormalize ==
  /\ fmtIn.fn = "normalize"
  /\ fmtOut = NoFmt
  /\ fmtOut' =
       [fn |-> "normalize",
        array |-> ExtractText(fmtIn.cap,
                     JArr(<<JObj(Undefined, JStr(fmtIn.text))>>)),
        object |-> ExtractText(fmtIn.cap, JObj(Undefined, JStr(fmtIn.text))),
        string |-> ExtractText(fmtIn.cap, JStr(fmtIn.text))]
  /\ UNCHANGED <<reqVars, fmtIn, uiVars, sockets>>

\* one iteration of the classification loop on one response body
ApplyClassify ==
  /\ fmtIn.fn = "classify"
  /\ fmtOut = NoFmt
  /\ fmtOut' =
       [fn |-> "classify",
        res |-> ClassificationAttempt(InitialResults, Responded(fmtIn.data))]
  /\ UNCHANGED <<reqVars, fmtIn, uiVars, sockets>>

NextFmt ==
  \/ ApplyFormatAltText
  \/ ApplyFormatCaption
  \/ ApplyNormalize
  \/ ApplyClassify

SpecFmt ==
  InitFmt /\ [][NextFmt]_vars

(***************************************************************************)
(* The front end.  App shows one of the two components; the other one is   *)
(* unmounted and starts from its initial state when it is shown again.     *)
(* A handler runs without interruption up to its await, and its            *)
(* continuation runs when the awaited promise settles.                     *)
(***************************************************************************)
InitFrontend ==
  /\ token = FALSE
  /\ files = {}
  /\ req = [r \in Reqs |-> NoRequest]
  /\ pc = [r \in Reqs |-> "idle"]
  /\ idx = [r \in Reqs |-> 0]
  /\ results = [r \in Reqs |-> InitialResults]
  /\ calls = [r \in Reqs |-> <<>>]
  /\ response = [r \in Reqs |-> NoResponse]
  /\ lastOutcome = [r \in Reqs |-> NoOutcome]
  /\ fmtIn = NoFmt
  /\ fmtOut = NoFmt
  /\ app = InitialApp
  /\ analyzer = InitialAnalyzer
  /\ generator = InitialGenerator
  /\ orphans = NoOrphans
  /\ sockets = NoSockets

\* toggleHandler of ViewToggler, clicked on the button with this id:
\* appView(e.target.id); setSelectedId(e.target.id).  When the view
\* changes, the component shown so far is unmounted, and what it awaited
\* settles later without a component to update.
ToggleHandler ==
  /\ Len(orphans.uploads) + (IF analyzer.upload # NoFile THEN 1 ELSE 0)
       <= MaxOrphans
  /\ orphans.generations + generator.requests <= MaxOrphans
  /\ \E id \in {"Accesibility", "Generation"} :
       /\ app' = [app EXCEPT !.appView = id, !.selectedId = id]
       /\ IF id = app.appView
          THEN UNCHANGED <<analyzer, generator, orphans>>
          ELSE /\ analyzer' = InitialAnalyzer
               /\ generator' = InitialGenerator
               /\ orphans' =
                    [uploads |-> IF analyzer.upload # NoFile
                                 THEN Append(orphans.uploads, analyzer.upload)
                                 ELSE orphans.uploads,
                     generations |->
                       orphans.generations + generator.requests]
  /\ UNCHANGED <<reqVars, fmtVars, sockets>>

\* the first four statements of handleFileChange without setHtmlCode('')
FileChangeResetsKeepsHtml(a) ==
  [a EXCEPT !.error = "", !.copied = FALSE, !.analysis = Null]

\* setError(''); setCopied(false); setAnalysis(null); setHtmlCode('')
FileChangeResets(a) ==
  [a EXCEPT !.error = "", !.copied = FALSE, !.analysis = Null,
            !.htmlCode = <<>>]

\* a size check that accepts everything
TooLargeNever(selectedFile) ==
  FALSE

\* selectedFile.size > maxFileSize
TooLarge(selectedFile) ==
  selectedFile.size > maxFileSize

\* handleFileChange with e.target.files[0] = selectedFile
FileChanged(selectedFile) ==
  /\ app.appView = "Accesibility"
  /\ analyzer' =
       IF selectedFile = NoFile
       THEN FileChangeResets(analyzer)
       ELSE IF TooLarge(selectedFile)
       THEN [FileChangeResets(analyzer) EXCEPT !.error =
              "Image is too large. Please select an image under 15MB."]
       ELSE [FileChangeResets(analyzer) EXCEPT
              !.file = selectedFile,
              \* createImagePreview returns at once for a non-image
              !.readers = IF selectedFile.image
                          THEN analyzer.readers \cup {selectedFile}
                          ELSE analyzer.readers]
  /\ UNCHANGED <<app, generator, orphans, reqVars, fmtVars, sockets>>

\* onChange of the file input: the picker returns a file or nothing
HandleFileChange ==
  \E selectedFile \in UserFiles \cup {NoFile} : FileChanged(selectedFile)

\* reader.onload of createImagePreview: setPreviewUrl(dataUrl)
PreviewLoaded ==
  /\ \E f \in analyzer.readers :
       /\ analyzer' = [analyzer EXCEPT !.previewUrl = DataUrl(f),
                                       !.readers = analyzer.readers \ {f}]
  /\ UNCHANGED <<app, generator, orphans, reqVars, fmtVars, sockets>>

\* disabled={isLoading || !file} of the Analyze button, negated
AnalyzeEnabled(a) ==
  ~(a.isLoading \/ a.file = NoFile)

\* click on Analyze: handleAnalyze up to its await
HandleAnalyze ==
  /\ app.appView = "Accesibility"
  /\ AnalyzeEnabled(analyzer)
  /\ analyzer' =
       IF analyzer.file = NoFile
       THEN [analyzer EXCEPT !.error = "Please select an image file first."]
       ELSE [analyzer EXCEPT !.isLoading = TRUE, !.error = "",
                             !.upload = analyzer.file]
  /\ UNCHANGED <<app, generator, orphans, reqVars, fmtVars, sockets>>

\* uploadImageForAnalysis settles: the rest of the try, or the catch, and
\* the finally of handleAnalyze; file is the one of the click
AnalyzeSettled(outcome) ==
  /\ analyzer.upload # NoFile
  /\ outcome \in UploadOutcomes(analyzer.upload)
  /\ IF outcome.rejected
     THEN /\ analyzer' = [analyzer EXCEPT !.error = outcome.message,
                            !.isLoading = FALSE, !.upload = NoFile]
          /\ app' = app
     ELSE /\ analyzer' = [analyzer EXCEPT
               !.analysis = outcome.value,
               !.htmlCode = generateHtmlCode(analyzer.upload.name,
                                             outcome.value.altText,
                                             outcome.value.caption),
               !.isLoading = FALSE,
               !.upload = NoFile]
          \* onAnalysisComplete(result): setLastAnalysis(result)
          /\ app' = [app EXCEPT !.lastAnalysis = outcome.value]
  /\ UNCHANGED <<generator, orphans, reqVars, fmtVars, sockets>>

AllUploadOutcomes ==
  UNION {UploadOutcomes(f) : f \in UserFiles}

AnalyzeSettles ==
  \E outcome \in AllUploadOutcomes : AnalyzeSettled(outcome)

\* click on Copy HTML (disabled without htmlCode): handleCopyCode up to
\* its await
HandleCopyCode ==
  /\ app.appView = "Accesibility"
  /\ analyzer.htmlCode # <<>>
  /\ analyzer.copying < MaxPending
  /\ analyzer' = [analyzer EXCEPT !.copying = analyzer.copying + 1]
  /\ UNCHANGED <<app, generator, orphans, reqVars, fmtVars, sockets>>

\* copyToClipboard settles (it never rejects): setCopied(success) and the
\* timer that clears the flag
CopySettles ==
  /\ analyzer.copying > 0
  /\ \E success \in BOOLEAN :
       /\ success => analyzer.timers < MaxPending
       /\ analyzer' = [analyzer EXCEPT
            !.copying = analyzer.copying - 1,
            !.copied = success,
            !.timers = IF success THEN analyzer.timers + 1
                       ELSE analyzer.timers]
  /\ UNCHANGED <<app, generator, orphans, reqVars, fmtVars, sockets>>

\* setTimeout(() => setCopied(false), 3000) fires
CopiedTimeout ==
  /\ analyzer.timers > 0
  /\ analyzer' = [analyzer EXCEPT !.timers = analyzer.timers - 1,
                                  !.copied = FALSE]
  /\ UNCHANGED <<app, generator, orphans, reqVars, fmtVars, sockets>>

\* the upload of an unmounted ImageAnalyzer settles: its state setters do
\* nothing, onAnalysisComplete still reaches App
OrphanUploadSettles ==
  /\ orphans.uploads # <<>>
  /\ \E outcome \in UploadOutcomes(Head(orphans.uploads)) :
       /\ app' = IF outcome.rejected THEN app
                 ELSE [app EXCEPT !.lastAnalysis = outcome.value]
  /\ orphans' = [orphans EXCEPT !.uploads = Tail(orphans.uploads)]
  /\ UNCHANGED <<analyzer, generator, reqVars, fmtVars, sockets>>

\* onChange of the prompt input
SetPrompt ==
  /\ app.appView = "Generation"
  /\ \E value \in UserPrompts :
       generator' = [generator EXCEPT !.prompt = value]
  /\ UNCHANGED <<app, analyzer, orphans, reqVars, fmtVars, sockets>>

\* click on Send prompt (rendered only while !isGenerating):
\* handleImageGeneration up to its await
HandleImageGeneration ==
  /\ app.appView = "Generation"
  /\ ~generator.isGenerating
  /\ generator' =
       IF generator.prompt = <<>>
       THEN [generator EXCEPT !.error = "Please enter a prompt first"]
       ELSE [generator EXCEPT !.isGenerating = TRUE,
                              !.requests = generator.requests + 1]
  /\ UNCHANGED <<app, analyzer, orphans, reqVars, fmtVars, sockets>>

\* a continuation whose catch leaves isGenerating as it is
GenerationContinuesNoReset(g, outcome) ==
  IF outcome.rejected
  THEN g
  ELSE IF outcome.value # <<>>
  THEN [g EXCEPT !.imgUrl = outcome.value, !.isGenerating = FALSE]
  ELSE g

\* handleImageGeneration after its await: if (result) { ... }, or the catch
GenerationContinues(g, outcome) ==
  IF outcome.rejected
  THEN [g EXCEPT !.isGenerating = FALSE]
  ELSE IF outcome.value # <<>>
  THEN [g EXCEPT !.imgUrl = outcome.value, !.isGenerating = FALSE]
  ELSE g

\* generateImageFromText settles with outcome
GenerationSettled(outcome) ==
  /\ generator.requests > 0
  /\ generator' =
       [GenerationContinues(generator, outcome) EXCEPT
          !.requests = generator.requests - 1]
  /\ UNCHANGED <<app, analyzer, orphans, reqVars, fmtVars, sockets>>

GenerationSettles ==
  \E outcome \in GenerationOutcomes : GenerationSettled(outcome)

\* the request of an unmounted ImageGenerator settles: nothing to update
OrphanGenerationSettles ==
  /\ orphans.generations > 0
  /\ orphans' = [orphans EXCEPT !.generations = orphans.generations - 1]
  /\ UNCHANGED <<app, analyzer, generator, reqVars, fmtVars, sockets>>

NextFrontend ==
  \/ ToggleHandler
  \/ HandleFileChange
  \/ PreviewLoaded
  \/ HandleAnalyze
  \/ AnalyzeSettles
  \/ HandleCopyCode
  \/ CopySettles
  \/ CopiedTimeout
  \/ OrphanUploadSettles
  \/ SetPrompt
  \/ HandleImageGeneration
  \/ GenerationSettles
  \/ OrphanGenerationSettles

SpecFrontend ==
  InitFrontend /\ [][NextFrontend]_vars

\* every request the browser sends ends: it is answered or it fails
SpecFrontendFair ==
  SpecFrontend /\ WF_vars(GenerationSettles)

(***************************************************************************)
(* The status channel of the server: one interval per connected socket.    *)
(***************************************************************************)
\* io.on('connection'): setInterval and the disconnect listener
SocketConnect(c) ==
  /\ sockets[c].state = "none"
  /\ sockets' = [sockets EXCEPT ![c].state = "connected",
                                ![c].interval = TRUE]
  /\ UNCHANGED <<reqVars, fmtVars, uiVars>>

\* the interval fires: the callback runs up to await fetch(...)
IntervalTick(c) ==
  /\ sockets[c].interval
  /\ sockets[c].fetching < MaxChecks
  /\ sockets[c].emitted < MaxEmits
  /\ sockets' = [sockets EXCEPT ![c].fetching = sockets[c].fetching + 1]
  /\ UNCHANGED <<reqVars, fmtVars, uiVars>>

\* the fetch of a status check settles: socket.emit('status_update', ...)
\* in the try (response.ok or not) or in the catch (fetch rejected)
StatusCheckSettles(c) ==
  /\ sockets[c].fetching > 0
  /\ \E status \in {"online", "offline", "error"} :
       sockets' = [sockets EXCEPT ![c].fetching = sockets[c].fetching - 1,
                                  ![c].emitted = sockets[c].emitted + 1,
                                  ![c].status = status]
  /\ UNCHANGED <<reqVars, fmtVars, uiVars>>

\* socket.on('disconnect'): clearInterval(interval)
SocketDisconnect(c) ==
  /\ sockets[c].state = "connected"
  /\ sockets' = [sockets EXCEPT ![c].state = "disconnected",
                                ![c].interval = FALSE]
  /\ UNCHANGED <<reqVars, fmtVars, uiVars>>

NextSocket ==
  \E c \in Clients :
    \/ SocketConnect(c)
    \/ IntervalTick(c)
    \/ StatusCheckSettles(c)
    \/ SocketDisconnect(c)

SpecSocket ==
  InitFrontend /\ [][NextSocket]_vars

(***************************************************************************)
(* Properties.                                                             *)
(***************************************************************************)
\* request r has been answered by POST /api/analyze-image
AnalyzeAnswered(r) ==
  pc[r] = "done" /\ req[r].endpoint = "analyze"

\* request r has been answered with an {altText, caption} object
AnalysisResultReturned(r) ==
  AnalyzeAnswered(r) /\ response[r].body.kind = "analysis"

\* the calls of request r to the providers of one capability
CallsOf(r, cap) ==
  SelectSeq(calls[r], LAMBDA c : c.cap = cap)

\* C1: within a capability's loop, a provider call that yielded a usable
\* result is the last call of that capability in the request: no call to
\* the same capability's list is ever issued after it.
C1_ShortCircuit ==
  \A r \in Reqs :
    \A i, j \in DOMAIN calls[r] :
      (i < j /\ calls[r][i].cap = calls[r][j].cap)
        => calls[r][i].usable = "no"

\* a finished request whose second caption provider and first analysis
\* provider were usable, and which called none of the later ones
C1_Witness ==
  \E r \in Reqs :
    /\ AnalyzeAnswered(r)
    /\ Len(CallsOf(r, "caption")) = 2
    /\ CallsOf(r, "caption")[2].usable = "yes"
    /\ Len(CallsOf(r, "analysis")) = 1
    /\ CallsOf(r, "analysis")[1].usable = "yes"
    /\ Len(CallsOf(r, "classification")) = 2
    /\ CallsOf(r, "classification")[2].usable = "yes"

\* C2: every analysis or classification call of a request comes after a
\* caption call of the same request that was usable; hence a request whose
\* caption calls all failed has made no analysis or classification call.
C2_ConditionalShortCircuit ==
  \A r \in Reqs :
    \A j \in DOMAIN calls[r] :
      calls[r][j].cap \in {"analysis", "classification"}
        => \E i \in 1..(j - 1) :
             calls[r][i].cap = "caption" /\ calls[r][i].usable = "yes"

\* a finished request that tried all four caption providers in vain
C2_Witness ==
  \E r \in Reqs :
    /\ AnalyzeAnswered(r)
    /\ Len(calls[r]) = Len(models.caption)
    /\ \A i \in DOMAIN calls[r] :
         calls[r][i].cap = "caption" /\ calls[r][i].usable = "no"

C4_CaptionFailureGivesMock ==
  \A r \in Reqs :
    (AnalyzeAnswered(r) /\ req[r].hasFile /\ token
       /\ ~results[r].captionSuccess)
      => /\ response[r].status = 200
         /\ response[r].body = MockPayload

\* all four caption providers were called and none was usable
C4_Witness ==
  \E r \in Reqs :
    /\ AnalyzeAnswered(r) /\ req[r].hasFile /\ token
    /\ ~results[r].captionSuccess
    /\ Len(CallsOf(r, "caption")) = Len(models.caption)
    /\ response[r].body = MockPayload

\* C5: without a credential an analysis request makes no provider call and
\* every such request that uploaded a file is answered with the same mock
\* constant.
C5_NoCredentialGivesMock ==
  \A r \in Reqs :
    (~token /\ req[r].endpoint = "analyze")
      => /\ calls[r] = <<>>
         /\ (pc[r] = "done" /\ req[r].hasFile)
              => /\ response[r].status = 200
                 /\ response[r].body = MockPayload

\* an analysis request answered while no credential is configured
C5_Witness ==
  \E r \in Reqs :
    /\ ~token
    /\ AnalyzeAnswered(r) /\ req[r].hasFile
    /\ response[r].body = MockPayload

\* C6: when the text-to-image call fails, /api/generate-image answers with
\* an error object and a status other than 200.
C6_GenerationPropagatesFailure ==
  \A r \in Reqs :
    (pc[r] = "done" /\ req[r].endpoint = "generate"
       /\ calls[r] # <<>> /\ calls[r][1].usable = "no")
      => /\ response[r].status # 200
         /\ response[r].body.kind = "error"

\* C7: altText and caption of every returned result are non-empty.
C7_FieldsNonEmpty ==
  \A r \in Reqs :
    AnalysisResultReturned(r)
      => /\ response[r].body.altText # <<>>
         /\ response[r].body.caption # <<>>

\* C8: the altText of every returned result, live or mock, has at most 125
\* characters.
C8_AltTextAtMost125 ==
  \A r \in Reqs :
    AnalysisResultReturned(r) => Len(response[r].body.altText) <= 125

\* a live result whose caption text was longer than 125 characters and
\* whose altText has exactly 125
C8_Witness ==
  \E r \in Reqs :
    /\ AnalysisResultReturned(r)
    /\ results[r].captionSuccess
    /\ results[r].captionText.type = "string"
    /\ Len(results[r].captionText.val) > 125
    /\ Len(response[r].body.altText) = 125
    /\ response[r].body.altText # MockAltText

\* C9: the altText of every returned result does not end with a period.
C9_AltTextPeriodFree ==
  \A r \in Reqs :
    AnalysisResultReturned(r)
      => ~endsWith(response[r].body.altText, <<".">>)

\* the transform C10 describes: trim, strip one trailing period, upper-case
\* the first character, cut to 122 characters plus "..." beyond 125
ReferenceAltText(text) ==
  LET trimmed == trim(text)
      stripped == IF trimmed # <<>> /\ trimmed[Len(trimmed)] = "."
                  THEN SubSeq(trimmed, 1, Len(trimmed) - 1)
                  ELSE trimmed
      capitalized == IF stripped = <<>> THEN <<>>
                     ELSE <<UpperChar(stripped[1])>> \o Tail(stripped)
  IN  IF Len(capitalized) > 125
      THEN SubSeq(capitalized, 1, 122) \o <<".", ".", ".">>
      ELSE capitalized

\* C10: formatAltText(text) equals the reference transform on every input.
C10_FormatAltTextIsReference ==
  fmtOut.fn = "formatAltText" => fmtOut.val = ReferenceAltText(fmtIn.text)

\* C11: formatAltText on an input that is empty after trimming returns the
\* empty string.
C11_EmptyInputUnchanged ==
  (fmtOut.fn = "formatAltText" /\ trim(fmtIn.text) = <<>>)
    => fmtOut.val = <<>>

\* C12: formatAltText on a 200-character input without surrounding
\* whitespace and without trailing period returns 125 characters that end
\* with "..." and start with the first 122 characters of the input.
C12_LongInputTruncated ==
  (/\ fmtOut.fn = "formatAltText"
   /\ Len(fmtIn.text) = 200
   /\ trim(fmtIn.text) = fmtIn.text
   /\ fmtIn.text[200] # ".")
    => /\ Len(fmtOut.val) = 125
       /\ SubSeq(fmtOut.val, 123, 125) = <<".", ".", ".">>
       /\ SubSeq(fmtOut.val, 1, 122) = SubSeq(fmtIn.text, 1, 122)

\* the boilerplate prefixes C13 names
BoilerplatePrefixes ==
  {PrefixCaption, PrefixDescription, PrefixImageShows}

\* C13: when detailedText is non-empty and strictly longer than
\* basicCaption, formatCaption returns detailedText without its leading
\* boilerplate prefix (detailedText itself when it has none), whatever the
\* labels are.
C13_DetailedTextPreferred ==
  (/\ fmtOut.fn = "formatCaption"
   /\ fmtIn.detailedText # <<>>
   /\ Len(fmtIn.detailedText) > Len(fmtIn.basicCaption))
    => IF \E p \in BoilerplatePrefixes : startsWith(fmtIn.detailedText, p)
       THEN \E p \in BoilerplatePrefixes :
              fmtIn.detailedText = p \o fmtOut.val
       ELSE fmtOut.val = fmtIn.detailedText

\* formatCaption("Caption: a dog running", "a dog", labels) with labels
\* present has returned "a dog running"
C13_Witness ==
  /\ fmtOut.fn = "formatCaption"
  /\ fmtIn.detailedText = TxtCaptionADogRunning
  /\ fmtIn.basicCaption = TxtADog
  /\ fmtIn.labels # <<>>
  /\ fmtOut.val = TxtADogRunning

\* labels joined with ", "
RECURSIVE CommaJoined(_)
CommaJoined(labels) ==
  IF labels = <<>> THEN <<>>
  ELSE IF Len(labels) = 1 THEN labels[1]
  ELSE labels[1] \o <<",", " ">> \o CommaJoined(Tail(labels))

\* C14: when detailedText is empty or not strictly longer than
\* basicCaption, formatCaption returns basicCaption, followed by
\* ", The image contains: " + the labels joined with ", " + "." when there
\* are labels.
C14_BasicCaptionWithLabels ==
  (/\ fmtOut.fn = "formatCaption"
   /\ \/ fmtIn.detailedText = <<>>
      \/ Len(fmtIn.detailedText) <= Len(fmtIn.basicCaption))
    => fmtOut.val =
         IF fmtIn.labels = <<>>
         THEN fmtIn.basicCaption
         ELSE fmtIn.basicCaption
                \o <<",", " ", "T", "h", "e", " ", "i", "m", "a", "g", "e",
                     " ", "c", "o", "n", "t", "a", "i", "n", "s", ":", " ">>
                \o CommaJoined(fmtIn.labels) \o <<".">>

\* the three recognised shapes all gave the text of the input
AllShapesYield(out, t) ==
  /\ out.array = [usable |-> TRUE, text |-> JStr(t)]
  /\ out.object = [usable |-> TRUE, text |-> JStr(t)]
  /\ out.string = [usable |-> TRUE, text |-> JStr(t)]

\* C15 as stated: for every text t the three recognised shapes carrying t
\* are accepted as usable and yield t.
C15_ShapeInvarianceEveryText ==
  fmtOut.fn = "normalize" => AllShapesYield(fmtOut, fmtIn.text)

\* C15 amended: for every non-empty text t the three recognised shapes
\* carrying t are accepted as usable and yield t, in the caption loop and in
\* the analysis loop.
C15_ShapeInvariance ==
  (fmtOut.fn = "normalize" /\ fmtIn.text # <<>>)
    => AllShapesYield(fmtOut, fmtIn.text)

\* the caption normaliser has extracted "a cat." from all three shapes
C15_Witness ==
  /\ fmtOut.fn = "normalize"
  /\ fmtIn.cap = "caption"
  /\ fmtIn.text = TxtACat
  /\ fmtOut.string.text = JStr(TxtACat)

\* the label of an entry as C17 describes it: its label field, else its
\* generated_text field, else the entry itself when it is a string
ClaimedLabel(item) ==
  IF item.type = "object" /\ item.label.type # "undefined" THEN item.label
  ELSE IF item.type = "object" /\ item.generated_text.type # "undefined"
  THEN item.generated_text
  ELSE item

\* the first three string-valued labels among all entries
ClaimedLabels(items) ==
  LET all == SelectSeq([i \in DOMAIN items |-> ClaimedLabel(items[i])],
                       LAMBDA v : v.type = "string")
  IN  SubSeq(all, 1, Min(3, Len(all)))

\* C17: for every response sequence the recorded labels are the first 3
\* string-valued labels, in order, among all entries of the response; they
\* are at most 3 and all strings.
C17_FirstThreeStringLabels ==
  (fmtOut.fn = "classify" /\ fmtIn.data.type = "array")
    => /\ fmtOut.res.classifications = ClaimedLabels(fmtIn.data.items)
       /\ Len(fmtOut.res.classifications) <= 3
       /\ \A i \in DOMAIN fmtOut.res.classifications :
            fmtOut.res.classifications[i].type = "string"

\* a caption or analysis response in none of the three recognised shapes
UnrecognizedTextShape(data) ==
  ~ \/ /\ data.type = "array"
       /\ data.items # <<>>
       /\ data.items[1].type = "object"
       /\ data.items[1].generated_text.type # "undefined"
    \/ /\ data.type = "object"
       /\ data.generated_text.type # "undefined"
    \/ data.type = "string"

\* a classification response that is no sequence, or a sequence none of
\* whose entries carries a string label (null entries included)
UnrecognizedLabelShape(data) ==
  \/ data.type # "array"
  \/ \A i \in DOMAIN data.items : ClaimedLabel(data.items[i]).type # "string"

\* the call of request r that settled last
LastSettled(r) ==
  IF calls[r][Len(calls[r])].usable = "pending"
  THEN calls[r][Len(calls[r]) - 1]
  ELSE calls[r][Len(calls[r])]

\* the provider call of request r that settled last answered with a body
\* in no recognised shape
UnrecognizedResponse(r) ==
  /\ lastOutcome[r] # NoOutcome
  /\ ~lastOutcome[r].threw
  /\ \/ /\ LastSettled(r).cap \in {"caption", "analysis"}
        /\ UnrecognizedTextShape(lastOutcome[r].data)
     \/ /\ LastSettled(r).cap = "classification"
        /\ UnrecognizedLabelShape(lastOutcome[r].data)

SuccessFlag(res, cap) ==
  CASE cap = "caption" -> res.captionSuccess
    [] cap = "analysis" -> res.analysisSuccess
    [] cap = "classification" -> res.classificationSuccess

\* C16: a response in no recognised shape is unusable: the capability's
\* success flag is still false after it, the next provider of the list (if
\* any) is the call now in flight, and when the request ends it is answered
\* with a result, not with an error.
C16_UnrecognizedShapeIsUnusable ==
  \A r \in Reqs :
    UnrecognizedResponse(r)
      => LET c == LastSettled(r)
         IN  /\ c.usable = "no"
             /\ ~SuccessFlag(results[r], c.cap)
             /\ c.k < Len(models[c.cap])
                  => /\ pc[r] = c.cap
                     /\ calls[r][Len(calls[r])].cap = c.cap
                     /\ calls[r][Len(calls[r])].k = c.k + 1
                     /\ calls[r][Len(calls[r])].usable = "pending"
             /\ pc[r] = "done"
                  => /\ response[r].status = 200
                     /\ response[r].body.kind = "analysis"

\* the first classification provider answered [null]; reading its label
\* threw inside the loop and the second provider is being called
C16_Witness ==
  \E r \in Reqs :
    /\ lastOutcome[r] = Responded(JArr(<<Null>>))
    /\ pc[r] = "classification"
    /\ idx[r] = 2
    /\ UnrecognizedResponse(r)

Capabilities ==
  {"caption", "analysis", "classification"}

\* what the results object records for one capability
CapabilityOutcome(res, cap) ==
  CASE cap = "caption" -> <<res.captionSuccess, res.captionText>>
    [] cap = "analysis" -> <<res.analysisSuccess, res.analysisText>>
    [] cap = "classification" ->
         <<res.classificationSuccess, res.classifications>>

\* every failed or unusable call that is not the last of its list is
\* followed in the log by the call to the next provider of the same list
FailureFallsThrough ==
  \A r \in Reqs :
    \A i \in DOMAIN calls[r] :
      (/\ calls[r][i].cap \in Capabilities
       /\ calls[r][i].usable = "no"
       /\ calls[r][i].k < Len(models[calls[r][i].cap]))
        => /\ i < Len(calls[r])
           /\ calls[r][i + 1].cap = calls[r][i].cap
           /\ calls[r][i + 1].k = calls[r][i].k + 1

\* a step in which the call in flight settles as failed or unusable leaves
\* what is recorded for the other capabilities as it was, and ends the
\* request only when the failed provider was the last of its list
FailureKeepsOtherCapabilities ==
  \A r \in Reqs :
    (/\ pc[r] \in Capabilities
     /\ Len(calls'[r]) >= Len(calls[r])
     /\ calls'[r][Len(calls[r])].usable = "no")
      => /\ \A cap \in Capabilities \ {pc[r]} :
              CapabilityOutcome(results'[r], cap)
                = CapabilityOutcome(results[r], cap)
         /\ idx[r] < Len(models[pc[r]]) => pc'[r] = pc[r]

\* C18: when the provider at position k < n of a capability's list fails
\* or returns an unusable shape, the next call of the request goes to the
\* provider at position k+1 of the same list; the failure does not end the
\* request and does not change what another capability has recorded.
C18_FailureIsNonFatal ==
  []FailureFallsThrough /\ [][FailureKeepsOtherCapabilities]_vars

\* the first classification provider failed with an error after caption
\* and analysis had succeeded, and the second one is being called
C18_Witness ==
  \E r \in Reqs :
    /\ pc[r] = "classification"
    /\ idx[r] = 2
    /\ lastOutcome[r].threw
    /\ results[r].captionSuccess
    /\ results[r].analysisSuccess

\* C19: a request to /api/analyze-image without a file and a request to
\* /api/generate-image without a prompt are answered with a 4xx error
\* object, and no provider call is made for them.
C19_InputFailuresRejected ==
  \A r \in Reqs :
    (\/ req[r].endpoint = "analyze" /\ ~req[r].hasFile
     \/ req[r].endpoint = "generate" /\ req[r].prompt.type = "undefined")
      => /\ calls[r] = <<>>
         /\ pc[r] = "done"
              => /\ response[r].status \in 400..499
                 /\ response[r].body.kind = "error"

\* C20: the providers a request has called for a capability are the first
\* ones of that capability's list, in list order, each once.
C20_FixedOrderNoRetry ==
  \A r \in Reqs :
    \A cap \in Capabilities :
      LET cs == CallsOf(r, cap)
      IN  /\ Len(cs) <= Len(models[cap])
          /\ \A i \in DOMAIN cs :
               cs[i].k = i /\ cs[i].model = models[cap][i]
          /\ \A i, j \in DOMAIN cs : i # j => cs[i].model # cs[j].model

\* a finished request that went through three caption providers, all four
\* analysis providers and two classification providers
C20_Witness ==
  \E r \in Reqs :
    /\ AnalyzeAnswered(r)
    /\ Len(CallsOf(r, "caption")) = 3
    /\ Len(CallsOf(r, "analysis")) = 4
    /\ Len(CallsOf(r, "classification")) = 2

\* position of a capability in the body of analyzeImageWithAI
CapabilityRank(cap) ==
  CASE cap = "caption" -> 1
    [] cap = "analysis" -> 2
    [] cap = "classification" -> 3
    [] OTHER -> 0

\* C21: within one request at most one provider call is in flight, it is
\* the call issued last (every earlier call has completed), the request is
\* suspended exactly while a call is in flight, and all caption calls
\* precede all analysis calls, which precede all classification calls.
C21_AttemptsSequential ==
  \A r \in Reqs :
    /\ \A i \in DOMAIN calls[r] :
         calls[r][i].usable = "pending" => i = Len(calls[r])
    /\ (pc[r] \in Capabilities \cup {"generate"})
         <=> (/\ calls[r] # <<>>
              /\ calls[r][Len(calls[r])].usable = "pending"
              /\ calls[r][Len(calls[r])].cap = pc[r])
    /\ \A i, j \in DOMAIN calls[r] :
         (/\ i < j
          /\ calls[r][i].cap \in Capabilities
          /\ calls[r][j].cap \in Capabilities)
           => CapabilityRank(calls[r][i].cap) <= CapabilityRank(calls[r][j].cap)

\* a classification call is in flight after completed caption and
\* analysis calls, several of them for the caption
C21_Witness ==
  \E r \in Reqs :
    /\ pc[r] = "classification"
    /\ Len(CallsOf(r, "caption")) >= 2
    /\ Len(CallsOf(r, "analysis")) >= 1
    /\ calls[r][Len(calls[r])].usable = "pending"
    /\ \A i \in 1..(Len(calls[r]) - 1) : calls[r][i].usable # "pending"

\* C24: whenever the caption capability succeeded, the caption field of
\* the returned result equals formatCaption(analysisText, captionText,
\* labels): with the analysis text when analysis succeeded, with an empty
\* analysis text and the labels when only classification succeeded, and
\* with neither when both failed.
C24_CaptionIsFormatCaption ==
  \A r \in Reqs :
    (/\ AnalysisResultReturned(r)
     /\ results[r].captionSuccess
     /\ results[r].captionText.type = "string")
      => response[r].body.caption
           = formatCaption(
               IF results[r].analysisSuccess
               THEN results[r].analysisText ELSE JStr(<<>>),
               results[r].captionText.val,
               join(LabelStrings(results[r])))

\* what request r is answered when it is served alone and its providers
\* answer as they did
AnsweredAlone(r) ==
  IF ~req[r].hasFile
  THEN ErrorResponse(400, "No image file provided")
  ELSE IF AnalyzeTokenMissing(token)
  THEN JsonResponse(getMockAnalysisResults)
  ELSE JsonResponse(OuterCatch(FormatResults(results[r])).value)

\* C22: when two analysis requests are served concurrently, each request
\* is answered as it would be when served alone with the same provider
\* responses, and the uploaded file of a request that is still being
\* processed is not removed by the other request.
C22_RequestsIsolated ==
  \A r \in Reqs :
    /\ AnalyzeAnswered(r) => response[r] = AnsweredAlone(r)
    /\ (/\ req[r].endpoint = "analyze"
        /\ req[r].hasFile
        /\ pc[r] \in Capabilities \cup {"analyzeHandler"})
         => req[r].path \in files

\* the step in which processUploadedImage settles for a request with a file
FileGoneWhenProcessed(r) ==
  (/\ req[r].endpoint = "analyze"
   /\ req[r].hasFile
   /\ pc[r] # "done"
   /\ pc'[r] = "done")
    => req[r].path \notin files'

\* the step that handles a request without a file
NoFileLeavesFilesAlone(r) ==
  (/\ req[r].endpoint = "analyze"
   /\ ~req[r].hasFile
   /\ pc[r] = "analyzeHandler"
   /\ pc'[r] # pc[r])
    => /\ files' = files
       /\ calls'[r] = <<>>
       /\ pc'[r] = "done"
       /\ response'[r].body.kind = "error"
       /\ response'[r].body.error = "No image file provided"

\* C25: when processUploadedImage settles for a request that carried a
\* file, by returning a result or by throwing, no file exists at
\* req.file.path; a request without a file fails with 'No image file
\* provided', leaves the file system as it was and reaches no provider.
C25_UploadRemoved ==
  [][\A r \in Reqs : FileGoneWhenProcessed(r) /\ NoFileLeavesFilesAlone(r)]_vars

\* one request was answered with a result and another one failed in
\* processUploadedImage; the uploads of both are gone
C25_Witness ==
  \E r, q \in Reqs :
    /\ AnalysisResultReturned(r)
    /\ AnalyzeAnswered(q)
    /\ req[r].hasFile /\ req[q].hasFile
    /\ response[q].status = 500
    /\ req[r].path \notin files /\ req[q].path \notin files

\* the number of providers in the three lists together
MaxProviderCalls ==
  Len(models.caption) + Len(models.analysis) + Len(models.classification)

\* C23: if every provider call settles (by an answer, an error or its
\* timeout), every analysis request is eventually answered, one that
\* carried a file with a result, and no request makes more than
\* 4 + 4 + 3 = 11 provider calls.
C23_Termination ==
  /\ \A r \in Reqs :
       (req[r].endpoint = "analyze" /\ pc[r] = "analyzeHandler")
         ~> AnalyzeAnswered(r)
  /\ \A r \in Reqs :
       (req[r].endpoint = "analyze" /\ req[r].hasFile)
         ~> AnalysisResultReturned(r)
  /\ [][\A r \in Reqs : Len(calls'[r]) <= MaxProviderCalls]_vars

\* a request answered after every one of the eleven providers was called:
\* the caption came from the last caption provider, and all analysis and
\* classification providers timed out or gave nothing usable
C23_Witness ==
  \E r \in Reqs :
    /\ AnalysisResultReturned(r)
    /\ Len(calls[r]) = MaxProviderCalls
    /\ lastOutcome[r] = Thrown("timeout")

\* a result is displayed exactly when there is HTML code for it
AnalysisIffHtml ==
  (analyzer.analysis # Null) <=> (analyzer.htmlCode # <<>>)

\* what the three kinds of completed handlers do to analysis and htmlCode
ResultAndHtmlChangeTogether ==
  /\ HandleFileChange
       => analyzer'.analysis = Null /\ analyzer'.htmlCode = <<>>
  /\ \A outcome \in AllUploadOutcomes :
       AnalyzeSettled(outcome)
         => IF outcome.rejected
            THEN /\ analyzer'.analysis = analyzer.analysis
                 /\ analyzer'.htmlCode = analyzer.htmlCode
                 /\ analyzer'.error = outcome.message
            ELSE /\ analyzer'.analysis = outcome.value
                 /\ analyzer'.htmlCode =
                      generateHtmlCode(analyzer.upload.name,
                                       analyzer'.analysis.altText,
                                       analyzer'.analysis.caption)
  /\ (HandleCopyCode \/ CopySettles \/ CopiedTimeout)
       => /\ analyzer'.analysis = analyzer.analysis
          /\ analyzer'.htmlCode = analyzer.htmlCode

\* C26: in ImageAnalyzer, after every completed handler analysis is
\* non-null exactly when htmlCode is non-empty; a file change clears both,
\* a successful analysis sets both from the same result, and a failed
\* analysis (like a copy) changes neither and shows its error next to the
\* previous result.
C26_AnalysisIffHtml ==
  []AnalysisIffHtml /\ [][ResultAndHtmlChangeTogether]_vars

\* an analysis failed after an earlier one had succeeded: the earlier
\* result and its HTML code are shown together with the error
C26_Witness ==
  /\ analyzer.analysis \in AnalysisResults
  /\ analyzer.htmlCode # <<>>
  /\ analyzer.error = "Failed to fetch"
  /\ ~analyzer.isLoading

\* C27: when the picker returns a file larger than maxFileSize, or no
\* file, handleFileChange leaves file, previewUrl and everything else as
\* it was, so that the Analyze button is enabled as before; it only sets
\* error (the size message, or '' without a file) and clears analysis,
\* htmlCode and copied.
C27_RejectedSelectionKeepsFile ==
  [][\A selectedFile \in UserFiles \cup {NoFile} :
       (/\ FileChanged(selectedFile)
        /\ selectedFile = NoFile \/ selectedFile.size > maxFileSize)
         => /\ analyzer' =
                 [analyzer EXCEPT
                    !.error =
                      IF selectedFile = NoFile THEN ""
                      ELSE "Image is too large. Please select an image under 15MB.",
                    !.analysis = Null,
                    !.htmlCode = <<>>,
                    !.copied = FALSE]
            /\ analyzer'.file = analyzer.file
            /\ analyzer'.previewUrl = analyzer.previewUrl
            /\ AnalyzeEnabled(analyzer') = AnalyzeEnabled(analyzer)]_vars

\* an oversized file was declined while another file was selected and
\* previewed: that file is still selected and can be analysed
C27_Witness ==
  /\ analyzer.error = "Image is too large. Please select an image under 15MB."
  /\ analyzer.file \in UserFiles
  /\ analyzer.previewUrl = DataUrl(analyzer.file)
  /\ analyzer.analysis = Null
  /\ AnalyzeEnabled(analyzer)

\* the flag is set exactly while the one request of the component is out
GeneratingIffInFlight ==
  /\ generator.requests <= 1
  /\ generator.isGenerating <=> generator.requests = 1

\* a click on Send with an empty prompt only sets the error
EmptyPromptSendsNothing ==
  (HandleImageGeneration /\ generator.prompt = <<>>)
    => generator' =
         [generator EXCEPT !.error = "Please enter a prompt first"]

\* C29: in ImageGenerator a click with an empty prompt neither sets
\* isGenerating nor calls the backend; with a prompt, isGenerating is true
\* exactly while the request is in flight, at most one request is in
\* flight, and once the request ends, fulfilled with any data URL or
\* rejected, isGenerating is false again.
C29_GeneratingFlag ==
  /\ []GeneratingIffInFlight
  /\ [][EmptyPromptSendsNothing]_vars
  /\ generator.isGenerating ~> ~generator.isGenerating

\* a request was answered with an empty body, whose data URL is the bare
\* prefix, and afterwards a click with an empty prompt was declined
C29_Witness ==
  /\ generator.imgUrl = DataUrlPrefix
  /\ ~generator.isGenerating
  /\ generator.requests = 0
  /\ generator.prompt = <<>>
  /\ generator.error = "Please enter a prompt first"

\* C28: a status check runs on the interval of each connected socket until
\* its disconnect event is handled; from then on no status_update is
\* emitted on that socket, also when the fetch of a check was in flight
\* at the disconnect.
C28_NoUpdateAfterDisconnect ==
  [][\A c \in Clients :
       /\ sockets[c].state = "disconnected"
            => sockets'[c].emitted = sockets[c].emitted
       /\ sockets'[c].fetching > sockets[c].fetching
            => sockets[c].state = "connected"]_vars

=============================================================================
